---- MODULE Spec2Model ----
(***************************************************************************)
(* A model of the Fibonacci heap of src/src/fibonacci_heap.rs.             *)
(*                                                                         *)
(* A heap is a record [nodes, hash_map, roots, min, size, panicked].       *)
(* `nodes` is the store of the shared node handles (FibonacciNodeType is a *)
(* cloneable reference to one mutable node): it maps a handle's address to *)
(* the node's fields.  hash_map and roots are the two HashMaps, keyed by   *)
(* value and holding addresses; min is an address or None.                 *)
(***************************************************************************)
EXTENDS Integers, Sequences, FiniteSets, TLC

\* ------------------------------------------------------------------ bounds
MaxKey == 1
MaxInserts == 4
\* The insert calls of DeepSpec, which fills the heap before it works on it
\* (at least MaxInserts).
DeepInserts == 9
\* The extract_min calls of DeepSpec that return a pair.
DeepExtracts == 2

Keys == 0..MaxKey
\* Values are opaque to the heap (it only hashes and compares them), so the
\* n-th insert call brings the value n.
Values == 1..MaxInserts
DeepValues == 1..DeepInserts

\* ------------------------------------------------------------- map helpers
None == 0
EmptyMap == [x \in {} |-> None]
Put(f, k, v) == [x \in (DOMAIN f) \cup {k} |-> IF x = k THEN v ELSE f[x]]
Remove(f, k) == [x \in (DOMAIN f) \ {k} |-> f[x]]
Range(f) == {f[x] : x \in DOMAIN f}
RECURSIVE Perms(_)
Perms(S) == IF S = {} THEN {<<>>} ELSE UNION {{<<x>> \o p : p \in Perms(S \ {x})} : x \in S}

\* --------------------------------------------------------------- the node
\* FibNode::new(key, value): a root-less, child-less, unmarked node.
FibNodeNew(key, value) ==
    [key |-> key, value |-> value, parent |-> None, children |-> {}, marked |-> FALSE]

get_key(ns, x) == ns[x].key
get_value(ns, x) == ns[x].value
get_parent(ns, x) == ns[x].parent
get_children(ns, x) == ns[x].children
is_marked(ns, x) == ns[x].marked
rank(ns, x) == Cardinality(ns[x].children)
set_key(ns, x, k) == [ns EXCEPT ![x].key = k]
set_parent(ns, x, p) == [ns EXCEPT ![x].parent = p]
set_marked(ns, x, b) == [ns EXCEPT ![x].marked = b]
add_child(ns, x, y) == [ns EXCEPT ![x].children = @ \cup {y}]
remove_child(ns, y, x) == [ns EXCEPT ![y].children = @ \ {x}]

\* The address of a newly allocated node: the first free slot of value's row.
Addr(value, g) == g * (DeepInserts + 1) + value
FreshAddr(ns, value) ==
    Addr(value, CHOOSE g \in 0..Cardinality(DOMAIN ns) :
                    /\ Addr(value, g) \notin DOMAIN ns
                    /\ \A g2 \in 0..(g - 1) : Addr(value, g2) \in DOMAIN ns)

\* Handles are reference counted: a node lives while a map, min or a living
\* node's child set holds it (the parent link is a back reference).
RECURSIVE Reach(_, _)
Reach(ns, S) ==
    LET T == S \cup UNION {ns[x].children : x \in S}
    IN  IF T = S THEN S ELSE Reach(ns, T)

Collect(h) ==
    LET held == (Range(h.hash_map) \cup Range(h.roots) \cup {h.min}) \ {None}
        live == Reach(h.nodes, held)
    IN  [h EXCEPT !.nodes = [x \in live |->
            IF h.nodes[x].parent \in live \cup {None}
            THEN h.nodes[x]
            ELSE [h.nodes[x] EXCEPT !.parent = None]]]

\* --------------------------------------------------------------- the heap
\* FibonacciHeap::new
New ==
    [nodes |-> EmptyMap, hash_map |-> EmptyMap, roots |-> EmptyMap,
     min |-> None, size |-> 0, panicked |-> FALSE]

\* Variant: insert keeps the index entry of a value that is already there.
InsertKeepIndex(h, key, value) ==
    LET node == FreshAddr(h.nodes, value)
        ns == Put(h.nodes, node, FibNodeNew(key, value))
        hm == IF value \in DOMAIN h.hash_map THEN h.hash_map ELSE Put(h.hash_map, value, node)
    IN  Collect(
        IF h.min # None
        THEN [h EXCEPT !.nodes = ns, !.hash_map = hm,
                       !.roots = Put(h.roots, value, node),
                       !.min = IF key < get_key(h.nodes, h.min) THEN node ELSE h.min,
                       !.size = h.size + 1]
        ELSE [h EXCEPT !.nodes = ns, !.hash_map = hm,
                       !.roots = Put(EmptyMap, value, node),
                       !.min = node,
                       !.size = h.size + 1])

\* insert, lines 41-53: the new node joins roots and becomes min when smaller.
InsertLess(k, mk) == k < mk

\* FibonacciHeap::insert
Insert(h, key, value) ==
    LET node == FreshAddr(h.nodes, value)
        ns == Put(h.nodes, node, FibNodeNew(key, value))
        hm == Put(h.hash_map, value, node)
    IN  Collect(
        IF h.min # None
        THEN [h EXCEPT !.nodes = ns, !.hash_map = hm,
                       !.roots = Put(h.roots, value, node),
                       !.min = IF InsertLess(key, get_key(h.nodes, h.min)) THEN node ELSE h.min,
                       !.size = h.size + 1]
        ELSE [h EXCEPT !.nodes = ns, !.hash_map = hm,
                       !.roots = Put(EmptyMap, value, node),
                       !.min = node,
                       !.size = h.size + 1])

\* FibonacciHeap::minimum: <<key, value>> for Some((key, value)), <<>> for None.
Minimum(h) ==
    IF h.min # None
    THEN <<get_key(h.nodes, h.min), get_value(h.nodes, h.min)>>
    ELSE <<>>

\* ------------------------------------------------------------ consolidate
RECURSIVE Fib(_)
Fib(k) == IF k = 0 THEN 0 ELSE IF k = 1 THEN 1 ELSE Fib(k - 1) + Fib(k - 2)
RECURSIVE Lucas(_)
Lucas(k) == IF k = 0 THEN 2 ELSE IF k = 1 THEN 1 ELSE Lucas(k - 1) + Lucas(k - 2)

\* phi^k <= n, with phi^k = (Lucas(k) + Fib(k) * sqrt(5)) / 2, in integers.
PhiPowLeq(k, n) ==
    /\ 2 * n - Lucas(k) >= 0
    /\ 5 * Fib(k) * Fib(k) <= (2 * n - Lucas(k)) * (2 * n - Lucas(k))

\* (size as f64).log(base) as usize: the floor of log_phi(n); the cast of a
\* negative or non-finite value gives 0.
LogPhi(n) ==
    IF n < 1 THEN 0
    ELSE CHOOSE k \in 0..n : PhiPowLeq(k, n) /\ ~PhiPowLeq(k + 1, n)

\* Variant: the array has one slot less.
ArraySizeShort(size) == LogPhi(size)

\* consolidate, line 160
ArraySize(size) == LogPhi(size) + 1

\* FibonacciHeap::heap_link: y becomes a child of x.
heap_link(ns, y, x) == set_marked(set_parent(add_child(ns, x, y), y, x), y, FALSE)

\* consolidate, line 174: x and y trade places when x's key is the larger.
LinkSwap(kx, ky) == kx > ky

\* consolidate, lines 168-183: the linking loop for one root x of degree d.
\* Indexing array[d] with d >= log_n panics.
RECURSIVE LinkLoop(_, _, _, _, _)
LinkLoop(ns, array, x, d, log_n) ==
    IF d >= log_n
    THEN [nodes |-> ns, array |-> array, x |-> x, d |-> d, panicked |-> TRUE]
    ELSE IF array[d] = None
    THEN [nodes |-> ns, array |-> array, x |-> x, d |-> d, panicked |-> FALSE]
    ELSE LET y0 == array[d]
             swap == LinkSwap(get_key(ns, x), get_key(ns, y0))
             x1 == IF swap THEN y0 ELSE x
             y1 == IF swap THEN x ELSE y0
         IN  LinkLoop(heap_link(ns, y1, x1), [array EXCEPT ![d] = None], x1, d + 1, log_n)

\* consolidate, lines 165-185: every root, in the order the map yields them.
RECURSIVE LinkRoots(_, _, _, _)
LinkRoots(ns, array, rs, log_n) ==
    IF rs = <<>>
    THEN [nodes |-> ns, array |-> array, panicked |-> FALSE]
    ELSE LET r == LinkLoop(ns, array, Head(rs), rank(ns, Head(rs)), log_n)
         IN  IF r.panicked
             THEN [nodes |-> r.nodes, array |-> r.array, panicked |-> TRUE]
             ELSE LinkRoots(r.nodes, [r.array EXCEPT ![r.d] = r.x], Tail(rs), log_n)

\* Variant: the first root found stays min.
RebuildLessNever(k, mk) == FALSE

\* consolidate, line 203
RebuildLess(k, mk) == k < mk

\* consolidate, lines 190-207: roots and min rebuilt from slots i..log_n-1.
RECURSIVE Rebuild(_, _, _, _, _, _)
Rebuild(ns, array, i, log_n, roots, min) ==
    IF i >= log_n THEN [roots |-> roots, min |-> min]
    ELSE IF array[i] = None THEN Rebuild(ns, array, i + 1, log_n, roots, min)
    ELSE LET i_root == array[i]
             roots1 == Put(roots, get_value(ns, i_root), i_root)
             min1 == IF min = None THEN i_root
                     ELSE IF RebuildLess(get_key(ns, i_root), get_key(ns, min))
                          THEN i_root ELSE min
         IN  Rebuild(ns, array, i + 1, log_n, roots1, min1)

\* FibonacciHeap::consolidate; ord lists the keys of roots in iteration order.
\* A panic leaves the heap as the unwinding finds it: roots taken.
Consolidate(h, ord) ==
    LET log_n == ArraySize(h.size)
        array == [i \in 0..(log_n - 1) |-> None]
        rs == [i \in 1..Len(ord) |-> h.roots[ord[i]]]
        linked == LinkRoots(h.nodes, array, rs, log_n)
        built == Rebuild(linked.nodes, linked.array, 0, log_n, EmptyMap, None)
    IN  IF linked.panicked
        THEN [h EXCEPT !.nodes = linked.nodes, !.roots = EmptyMap, !.panicked = TRUE]
        ELSE [h EXCEPT !.nodes = linked.nodes, !.roots = built.roots, !.min = built.min]

\* ------------------------------------------------------------ extract_min
\* Variant: z leaves roots, its children are not added.
PromoteNoChildren(h, z) == [h EXCEPT !.roots = Remove(h.roots, get_value(h.nodes, z))]

\* extract_min, lines 81-87: the children of z become roots, z leaves roots.
Promote(h, z) ==
    LET children == get_children(h.nodes, z)
        cvals == {get_value(h.nodes, c) : c \in children}
        ns == [x \in DOMAIN h.nodes |->
                 IF x \in children THEN [h.nodes[x] EXCEPT !.parent = None] ELSE h.nodes[x]]
        roots1 == [v \in (DOMAIN h.roots) \cup cvals |->
                     IF v \in cvals
                     THEN CHOOSE c \in children : get_value(h.nodes, c) = v
                     ELSE h.roots[v]]
    IN  [h EXCEPT !.nodes = ns, !.roots = Remove(roots1, get_value(h.nodes, z))]

\* The orders in which extract_min may find the roots it hands to consolidate.
RootOrders(h) ==
    IF h.min = None THEN {<<>>} ELSE Perms(DOMAIN Promote(h, h.min).roots)

\* Variant: size is not decremented.
SizeAfterExtractSame(size) == size

\* extract_min, line 104
SizeAfterExtract(size) == size - 1

\* Variant: consolidate is not called.
RerootUnlinked(p, ord) ==
    IF DOMAIN p.roots = {}
    THEN [p EXCEPT !.min = None]
    ELSE [p EXCEPT !.min = p.roots[ord[Len(ord)]]]

\* Variant: min is kept when no root is left.
RerootStale(p, ord) ==
    IF DOMAIN p.roots = {}
    THEN p
    ELSE Consolidate([p EXCEPT !.min = p.roots[ord[Len(ord)]]], ord)

\* extract_min, lines 89-101: min after z left; ord is the iteration order of roots.
Reroot(p, ord) ==
    IF DOMAIN p.roots = {}
    THEN [p EXCEPT !.min = None]
    ELSE Consolidate([p EXCEPT !.min = p.roots[ord[Len(ord)]]], ord)

\* Variant: size is decremented also when min is None.
ExtractNoneCounted(h) == [heap |-> [h EXCEPT !.size = h.size - 1], ret |-> <<>>]

\* extract_min, line 107: min is None.
ExtractNone(h) == [heap |-> h, ret |-> <<>>]

\* FibonacciHeap::extract_min: the heap afterwards and the value returned.
ExtractMin(h, ord) ==
    IF h.min = None
    THEN ExtractNone(h)
    ELSE LET z == h.min
             zk == get_key(h.nodes, z)
             zv == get_value(h.nodes, z)
             c == Reroot(Promote(h, z), ord)
         IN  IF c.panicked
             THEN [heap |-> c, ret |-> <<>>]
             ELSE [heap |-> Collect([c EXCEPT !.hash_map = Remove(c.hash_map, zv),
                                              !.size = SizeAfterExtract(c.size)]),
                   ret |-> <<zk, zv>>]

\* ----------------------------------------------------------- decrease_key
\* Variant: x keeps its mark.
cutKeepsMark(h, x, y) ==
    [h EXCEPT !.nodes = set_parent(remove_child(h.nodes, y, x), x, None),
              !.roots = Put(h.roots, get_value(h.nodes, x), x)]

\* Variant: x is not added to roots.
cutNotRooted(h, x, y) ==
    [h EXCEPT !.nodes = set_marked(set_parent(remove_child(h.nodes, y, x), x, None), x, FALSE)]

\* FibonacciHeap::cut: x leaves y's children and becomes an unmarked root.
cut(h, x, y) ==
    [h EXCEPT !.nodes = set_marked(set_parent(remove_child(h.nodes, y, x), x, None), x, FALSE),
              !.roots = Put(h.roots, get_value(h.nodes, x), x)]

\* Variant: a marked node that loses a child is left where it is.
cascadingMarkOnly(h, y) ==
    IF get_parent(h.nodes, y) = None THEN h
    ELSE [h EXCEPT !.nodes = set_marked(h.nodes, y, TRUE)]

\* FibonacciHeap::cascading_cut
RECURSIVE cascading_cut(_, _)
cascading_cut(h, y) ==
    LET z == get_parent(h.nodes, y)
    IN  IF z = None THEN h
        ELSE IF ~is_marked(h.nodes, y)
        THEN [h EXCEPT !.nodes = set_marked(h.nodes, y, TRUE)]
        ELSE cascading_cut(cut(h, y, z), z)

\* Variant: no key is refused.
KeyTooLargeNever(key, cur) == FALSE

\* Variant: an equal key is refused too.
KeyTooLargeOrEqual(key, cur) == key >= cur

\* decrease_key, line 129: the call is refused.
KeyTooLarge(key, cur) == key > cur

\* Variant: x is never cut.
NeedsCutNever(kx, ky) == FALSE

\* decrease_key, line 139: the heap order is broken, x is cut from y.
NeedsCut(kx, ky) == kx < ky

\* decrease_key, lines 135-145
CutIfSmaller(h, x) ==
    LET y == get_parent(h.nodes, x)
    IN  IF y # None /\ NeedsCut(get_key(h.nodes, x), get_key(h.nodes, y))
        THEN cascading_cut(cut(h, x, y), y)
        ELSE h

\* Variant: min is left as it is.
UpdateMinNever(h, x) == IF h.min = None THEN [h EXCEPT !.panicked = TRUE] ELSE h

\* decrease_key, lines 147-149; unwrapping an empty min panics.
UpdateMin(h, x) ==
    IF h.min = None THEN [h EXCEPT !.panicked = TRUE]
    ELSE IF get_key(h.nodes, x) < get_key(h.nodes, h.min)
    THEN [h EXCEPT !.min = x]
    ELSE h

\* Variant: a value that is not found is inserted with the largest key.
NotFoundInserted(h, value) == [heap |-> Insert(h, MaxKey, value), status |-> "Err"]

\* decrease_key, lines 120-127: the value is not in hash_map.
NotFound(h, value) == [heap |-> h, status |-> "Err"]

\* FibonacciHeap::decrease_key: the heap afterwards and Ok or Err.
DecreaseKey(h, value, key) ==
    IF value \notin DOMAIN h.hash_map
    THEN NotFound(h, value)
    ELSE LET x == h.hash_map[value]
         IN  IF KeyTooLarge(key, get_key(h.nodes, x))
             THEN [heap |-> h, status |-> "Err"]
             ELSE LET h1 == [h EXCEPT !.nodes = set_key(h.nodes, x, key)]
                      h2 == UpdateMin(CutIfSmaller(h1, x), x)
                  IN  [heap |-> h2, status |-> IF h2.panicked THEN "Panic" ELSE "Ok"]

\* ------------------------------------------------------ the state machine
\* heap      the FibonacciHeap
\* last      the last call and what it returned:
\*             op      "new", "insert", "minimum", "extract_min", "decrease_key"
\*             ret     <<key, value>> for Some((key, value)), <<>> otherwise
\*             status  "Ok" or "Err" of decrease_key, "Panic", "-" otherwise
\*             found   decrease_key: the value was present when called
\*             cmp     decrease_key on a present value: the new key against
\*                     the current one, "lt", "eq" or "gt"; "-" otherwise
\*             cut     decrease_key: the node had a parent and lost it
\*             newmin  decrease_key: min is another node than before
\* present   the pairs inserted and not yet extracted, by value, as the
\*           caller knows them from the calls made and their results
\* nIns      the insert calls made
\* nExt      the extract_min calls that returned Some
\* run       the pairs returned by extract_min since the heap's content was
\*           last changed by insert or decrease_key
\* start     `present` when that run started
\* alt       a second heap given the same calls, whose maps may iterate in
\*           another order
\* agree     the last call returned the same from heap and from alt
\* tieSeen   minimum or extract_min was called while two present pairs
\*           shared the smallest key
\* lost      for a node that has a parent, the children it lost through cut
\*           since heap_link made it a child; 0 for a root
\* cuts      the nodes the last call cut from their parents
\* pc        where StepSpec's call in progress stands: "idle" between calls,
\*           "consolidate" in the linking loop (lines 168-183),
\*           "cascading_cut" at an invocation of cascading_cut
\* frame     the locals of the call in progress:
\*             before  the heap when the call was made
\*             ord     consolidate: the order in which roots is iterated
\*             rest    consolidate: the roots not yet taken from the iterator
\*             array, log_n, x, d   consolidate: its locals of these names
\*             y       cascading_cut: its argument
\*             node    decrease_key: the node x whose key it set
VARIABLES heap, last, present, nIns, nExt, run, start, alt, agree, tieSeen, lost, cuts,
          pc, frame

vars == <<heap, last, present, nIns, nExt, run, start, alt, agree, tieSeen, lost, cuts,
          pc, frame>>

NoFrame ==
    [before |-> New, ord |-> <<>>, rest |-> <<>>, array |-> <<>>, log_n |-> 0,
     x |-> None, d |-> 0, y |-> None, node |-> None]

Call(op, ret, status, found, cmp, wasCut, newMin) ==
    [op |-> op, ret |-> ret, status |-> status, found |-> found, cmp |-> cmp,
     cut |-> wasCut, newmin |-> newMin]

Init ==
    /\ heap = New
    /\ last = Call("new", <<>>, "-", FALSE, "-", FALSE, FALSE)
    /\ present = EmptyMap
    /\ nIns = 0
    /\ nExt = 0
    /\ run = <<>>
    /\ start = EmptyMap
    /\ alt = New
    /\ agree = TRUE
    /\ tieSeen = FALSE
    /\ lost = EmptyMap
    /\ cuts = 0
    /\ pc = "idle"
    /\ frame = NoFrame

\* What the caller sees of insert.
InsertSeen == Call("insert", <<>>, "-", FALSE, "-", FALSE, FALSE)

\* What the caller sees of minimum() on h.
MinimumSeen(h) == Call("minimum", Minimum(h), "-", FALSE, "-", FALSE, FALSE)

\* What the caller sees of extract_min(), r its outcome.
ExtractMinSeen(r) ==
    Call("extract_min", r.ret, IF r.heap.panicked THEN "Panic" ELSE "-", FALSE, "-", FALSE, FALSE)

\* What the caller sees of decrease_key(value, key) on h, r its outcome;
\* pres holds the pairs present when it is called.
DecreaseKeySeen(h, pres, value, key, r) ==
    LET found == value \in DOMAIN pres
        cur == pres[value]
        indexed == value \in DOMAIN h.hash_map
        x == h.hash_map[value]
    IN  Call("decrease_key", <<>>, r.status, found,
             IF ~found THEN "-" ELSE IF key < cur THEN "lt" ELSE IF key = cur THEN "eq" ELSE "gt",
             /\ indexed
             /\ get_parent(h.nodes, x) # None
             /\ x \in DOMAIN r.heap.nodes
             /\ get_parent(r.heap.nodes, x) = None,
             r.heap.min # h.min)

\* insert(key, value), with a value that is not present (the caller's
\* obligation): the next unused one.
InsertCall(key, value) ==
    /\ ~heap.panicked
    /\ nIns < MaxInserts
    /\ value = nIns + 1
    /\ heap' = Insert(heap, key, value)
    /\ present' = Put(present, value, key)
    /\ nIns' = nIns + 1
    /\ UNCHANGED nExt

\* minimum()
MinimumCall ==
    /\ ~heap.panicked
    /\ UNCHANGED <<heap, present, nIns, nExt>>

\* extract_min() with the outcome r.
ExtractMinCall(r) ==
    /\ ~heap.panicked
    /\ heap' = r.heap
    /\ present' = IF r.ret = <<>> THEN present ELSE Remove(present, r.ret[2])
    /\ nExt' = IF r.ret = <<>> THEN nExt ELSE nExt + 1
    /\ UNCHANGED nIns

\* decrease_key(value, key) with the outcome r.
DecreaseKeyCall(value, key, r) ==
    /\ ~heap.panicked
    /\ heap' = r.heap
    /\ present' = IF r.status = "Ok" THEN Put(present, value, key) ELSE present
    /\ UNCHANGED <<nIns, nExt>>

\* ---- Spec: the calls in any order, each recorded in `last`.
Idle == UNCHANGED <<run, start, alt, agree, tieSeen, lost, cuts, pc, frame>>

DoInsert ==
    \E key \in Keys, value \in Values :
        InsertCall(key, value) /\ last' = InsertSeen /\ Idle

DoMinimum == MinimumCall /\ last' = MinimumSeen(heap) /\ Idle

DoExtractMin ==
    \E ord \in RootOrders(heap) : \E r \in {ExtractMin(heap, ord)} :
        ExtractMinCall(r) /\ last' = ExtractMinSeen(r) /\ Idle

DoDecreaseKey ==
    \E value \in Values, key \in Keys : \E r \in {DecreaseKey(heap, value, key)} :
        DecreaseKeyCall(value, key, r) /\ last' = DecreaseKeySeen(heap, present, value, key, r) /\ Idle

Next == DoInsert \/ DoMinimum \/ DoExtractMin \/ DoDecreaseKey

Spec == Init /\ [][Next]_vars

\* ---- RunSpec: the same calls, with the run of extractions recorded; of
\* a call, `last` keeps the name and what it returned.  (minimum() changes
\* nothing of this state.)
RunIdle == UNCHANGED <<alt, agree, tieSeen, lost, cuts, pc, frame>>

RunInsert ==
    \E key \in Keys, value \in Values :
        /\ InsertCall(key, value)
        /\ last' = InsertSeen
        /\ run' = <<>>
        /\ start' = present'
        /\ RunIdle

RunExtractMin ==
    \E ord \in RootOrders(heap) : \E r \in {ExtractMin(heap, ord)} :
        /\ ExtractMinCall(r)
        /\ last' = ExtractMinSeen(r)
        /\ run' = IF r.ret = <<>> THEN run ELSE Append(run, r.ret)
        /\ UNCHANGED start
        /\ RunIdle

RunDecreaseKey ==
    \E value \in Values, key \in Keys : \E r \in {DecreaseKey(heap, value, key)} :
        /\ DecreaseKeyCall(value, key, r)
        /\ last' = Call("decrease_key", <<>>, r.status, FALSE, "-", FALSE, FALSE)
        /\ run' = IF r.status = "Err" THEN run ELSE <<>>
        /\ start' = IF r.status = "Err" THEN start ELSE present'
        /\ RunIdle

RunNext == RunInsert \/ RunExtractMin \/ RunDecreaseKey

RunSpec == Init /\ [][RunNext]_vars

\* ---- PairSpec: two heaps given the same calls.  `heap` iterates its roots
\* in ascending order of value, `alt` in any order; the two are followed
\* until a call returns differently or minimum() or extract_min() is called
\* in a tie.
RECURSIVE Ascending(_)
Ascending(S) ==
    IF S = {} THEN <<>>
    ELSE LET m == CHOOSE x \in S : \A y \in S : x <= y
         IN  <<m>> \o Ascending(S \ {m})

RefOrder(h) == IF h.min = None THEN <<>> ELSE Ascending(DOMAIN Promote(h, h.min).roots)

\* Two present pairs share the smallest key.
MinTied(f) == \E v, w \in DOMAIN f : v # w /\ f[v] = f[w] /\ \A u \in DOMAIN f : f[v] <= f[u]

SameSoFar == agree /\ ~tieSeen /\ ~alt.panicked

PairIdle == UNCHANGED <<last, run, start, lost, cuts, pc, frame>>

PairInsert ==
    \E key \in Keys, value \in Values :
        /\ SameSoFar
        /\ InsertCall(key, value)
        /\ alt' = Insert(alt, key, value)
        /\ UNCHANGED <<agree, tieSeen>>
        /\ PairIdle

PairMinimum ==
    /\ SameSoFar
    /\ MinimumCall
    /\ agree' = (MinimumSeen(heap) = MinimumSeen(alt))
    /\ tieSeen' = MinTied(present)
    /\ UNCHANGED alt
    /\ PairIdle

PairExtractMin ==
    \E ord \in RootOrders(alt) :
        \E r \in {ExtractMin(heap, RefOrder(heap))}, r2 \in {ExtractMin(alt, ord)} :
            /\ SameSoFar
            /\ ExtractMinCall(r)
            /\ alt' = r2.heap
            /\ agree' = (ExtractMinSeen(r) = ExtractMinSeen(r2))
            /\ tieSeen' = MinTied(present)
            /\ PairIdle

PairDecreaseKey ==
    \E value \in Values, key \in Keys :
        \E r \in {DecreaseKey(heap, value, key)}, r2 \in {DecreaseKey(alt, value, key)} :
            /\ SameSoFar
            /\ DecreaseKeyCall(value, key, r)
            /\ alt' = r2.heap
            /\ agree' = (r.status = r2.status)
            /\ UNCHANGED tieSeen
            /\ PairIdle

PairNext == PairInsert \/ PairMinimum \/ PairExtractMin \/ PairDecreaseKey

PairSpec == Init /\ [][PairNext]_vars

\* ---- DupSpec: the calls in any order, insert also with a value that is
\* already present; the heap is followed up to its first such insert.  Of
\* an insert, `found` tells that the value was present when it was called.
InsertAgainSeen == Call("insert", <<>>, "-", TRUE, "-", FALSE, FALSE)

NoDuplicateYet == ~(last.op = "insert" /\ last.found)

\* insert(key, value) with a value that is present.
InsertAgainCall(key, value) ==
    /\ ~heap.panicked
    /\ nIns < MaxInserts
    /\ value \in DOMAIN present
    /\ heap' = Insert(heap, key, value)
    /\ present' = Put(present, value, key)
    /\ nIns' = nIns + 1
    /\ UNCHANGED nExt

DupInsert ==
    \E key \in Keys, value \in Values :
        NoDuplicateYet /\ InsertCall(key, value) /\ last' = InsertSeen /\ Idle

DupInsertAgain ==
    \E key \in Keys, value \in Values :
        NoDuplicateYet /\ InsertAgainCall(key, value) /\ last' = InsertAgainSeen /\ Idle

DupExtractMin ==
    \E ord \in RootOrders(heap) : \E r \in {ExtractMin(heap, ord)} :
        NoDuplicateYet /\ ExtractMinCall(r) /\ last' = ExtractMinSeen(r) /\ Idle

DupDecreaseKey ==
    \E value \in Values, key \in Keys : \E r \in {DecreaseKey(heap, value, key)} :
        /\ NoDuplicateYet
        /\ DecreaseKeyCall(value, key, r)
        /\ last' = Call("decrease_key", <<>>, r.status, FALSE, "-", FALSE, FALSE)
        /\ Idle

DupNext == DupInsert \/ DupInsertAgain \/ DupExtractMin \/ DupDecreaseKey

DupSpec == Init /\ [][DupNext]_vars

\* ---- DeepSpec: a heap that is first filled, by up to DeepInserts insert
\* calls with the largest key, and then worked on by decrease_key and up to
\* DeepExtracts extract_min calls in any order; its maps iterate in
\* ascending order of value.
\* This reaches the trees of depth two and more where nodes get marked and
\* cuts cascade.  `lost` and `cuts` are recorded.
DeepIdle == UNCHANGED <<run, start, alt, agree, tieSeen, pc, frame>>

\* The nodes that had a parent in h and have none in h2.
CutNodes(h, h2) ==
    {x \in DOMAIN h.nodes \cap DOMAIN h2.nodes :
        get_parent(h.nodes, x) # None /\ get_parent(h2.nodes, x) = None}

\* `lost` after a call that took the heap from h to h2: a node that stayed
\* under its parent adds the children it has no more (only cut takes a
\* child from a node that has a parent); a node that heap_link has just
\* made a child starts at 0.
LostAfter(h, h2, l) ==
    [x \in DOMAIN h2.nodes |->
        IF /\ x \in DOMAIN h.nodes
           /\ get_parent(h2.nodes, x) # None
           /\ get_parent(h2.nodes, x) = get_parent(h.nodes, x)
        THEN l[x] + Cardinality(get_children(h.nodes, x) \ get_children(h2.nodes, x))
        ELSE 0]

Filling == last.op \in {"new", "insert"}

DeepInsert ==
    \E value \in DeepValues :
        /\ Filling
        /\ ~heap.panicked
        /\ nIns < DeepInserts
        /\ value = nIns + 1
        /\ heap' = Insert(heap, MaxKey, value)
        /\ present' = Put(present, value, MaxKey)
        /\ nIns' = nIns + 1
        /\ last' = InsertSeen
        /\ lost' = LostAfter(heap, heap', lost)
        /\ cuts' = 0
        /\ UNCHANGED nExt
        /\ DeepIdle

DeepExtractMin ==
    \E r \in {ExtractMin(heap, RefOrder(heap))} :
        /\ nExt < DeepExtracts
        /\ ExtractMinCall(r)
        /\ last' = ExtractMinSeen(r)
        /\ lost' = LostAfter(heap, r.heap, lost)
        /\ cuts' = 0
        /\ DeepIdle

DeepDecreaseKey ==
    \E value \in DeepValues, key \in Keys : \E r \in {DecreaseKey(heap, value, key)} :
        /\ nExt > 0
        /\ DecreaseKeyCall(value, key, r)
        /\ last' = Call("decrease_key", <<>>, r.status, FALSE, "-", FALSE, FALSE)
        /\ lost' = LostAfter(heap, r.heap, lost)
        /\ cuts' = Cardinality(CutNodes(heap, r.heap))
        /\ DeepIdle

DeepNext == DeepInsert \/ DeepExtractMin \/ DeepDecreaseKey

DeepSpec == Init /\ [][DeepNext]_vars

\* ---- StepSpec: the calls of DeepSpec with the two loops of the code run
\* one iteration at a time: each pass of the linking loop of consolidate
\* and each invocation of cascading_cut is a step.  A call in progress runs
\* to its return before the next call is made.
StepIdle == UNCHANGED <<run, start, alt, agree, tieSeen, lost, cuts>>

\* Variant: the slot is left occupied.
ClearSlotNot(array, d) == array

\* consolidate, line 182
ClearSlot(array, d) == [array EXCEPT ![d] = None]

\* The call in progress returns, leaving h.
Return(h, seen) ==
    /\ heap' = h
    /\ last' = seen
    /\ pc' = "idle"
    /\ frame' = NoFrame

StepInsert ==
    \E value \in DeepValues :
        /\ pc = "idle"
        /\ Filling
        /\ ~heap.panicked
        /\ nIns < DeepInserts
        /\ value = nIns + 1
        /\ Return(Insert(heap, MaxKey, value), InsertSeen)
        /\ present' = Put(present, value, MaxKey)
        /\ nIns' = nIns + 1
        /\ UNCHANGED nExt
        /\ StepIdle

\* extract_min, lines 75-101 and 107, up to the call of consolidate and its
\* lines 159-167; without roots left it goes on to lines 103-105.
StepExtractMin ==
    /\ pc = "idle"
    /\ ~heap.panicked
    /\ nExt < DeepExtracts
    /\ IF heap.min = None
       THEN /\ Return(heap, ExtractMinSeen(ExtractNone(heap)))
            /\ UNCHANGED <<present, nExt>>
       ELSE LET z == heap.min
                zk == get_key(heap.nodes, z)
                zv == get_value(heap.nodes, z)
                p == Promote(heap, z)
                ord == RefOrder(heap)
                log_n == ArraySize(heap.size)
            IN  IF DOMAIN p.roots = {}
                THEN \E r \in {[heap |-> Collect([p EXCEPT !.min = None,
                                                          !.hash_map = Remove(p.hash_map, zv),
                                                          !.size = SizeAfterExtract(p.size)]),
                                 ret |-> <<zk, zv>>]} :
                        /\ Return(r.heap, ExtractMinSeen(r))
                        /\ present' = Remove(present, zv)
                        /\ nExt' = nExt + 1
                ELSE /\ heap' = [p EXCEPT !.min = p.roots[ord[Len(ord)]], !.roots = EmptyMap]
                     /\ pc' = "consolidate"
                     /\ frame' = [NoFrame EXCEPT
                                     !.before = heap,
                                     !.ord = ord,
                                     !.rest = [i \in 1..(Len(ord) - 1) |-> p.roots[ord[i + 1]]],
                                     !.array = [i \in 0..(log_n - 1) |-> None],
                                     !.log_n = log_n,
                                     !.x = p.roots[ord[1]],
                                     !.d = rank(p.nodes, p.roots[ord[1]])]
                     /\ UNCHANGED <<last, present, nExt>>
    /\ UNCHANGED nIns
    /\ StepIdle

\* consolidate, lines 187-207, then extract_min, lines 103-105.
FinishExtractMin(ns, array) ==
    LET z == frame.before.min
        zk == get_key(frame.before.nodes, z)
        zv == get_value(frame.before.nodes, z)
        built == Rebuild(ns, array, 0, frame.log_n, EmptyMap, None)
    IN  [heap |-> Collect([heap EXCEPT !.nodes = ns,
                                       !.roots = built.roots,
                                       !.min = built.min,
                                       !.hash_map = Remove(heap.hash_map, zv),
                                       !.size = SizeAfterExtract(heap.size)]),
         ret |-> <<zk, zv>>]

\* One pass of the loop of lines 168-183 for the root x at degree d; when
\* the loop breaks, line 184 and the next root of line 165, or the end.
LinkStep ==
    /\ pc = "consolidate"
    /\ UNCHANGED nIns
    /\ StepIdle
    /\ IF frame.d >= frame.log_n
       THEN /\ Return([heap EXCEPT !.panicked = TRUE],
                      ExtractMinSeen([heap |-> [heap EXCEPT !.panicked = TRUE], ret |-> <<>>]))
            /\ UNCHANGED <<present, nExt>>
       ELSE IF frame.array[frame.d] # None
       THEN LET y0 == frame.array[frame.d]
                swap == LinkSwap(get_key(heap.nodes, frame.x), get_key(heap.nodes, y0))
                x1 == IF swap THEN y0 ELSE frame.x
                y1 == IF swap THEN frame.x ELSE y0
            IN  /\ heap' = [heap EXCEPT !.nodes = heap_link(heap.nodes, y1, x1)]
                /\ frame' = [frame EXCEPT !.array = ClearSlot(frame.array, frame.d),
                                         !.x = x1,
                                         !.d = frame.d + 1]
                /\ UNCHANGED <<pc, last, present, nExt>>
       ELSE LET array1 == [frame.array EXCEPT ![frame.d] = frame.x]
            IN  IF frame.rest # <<>>
                THEN /\ frame' = [frame EXCEPT !.array = array1,
                                              !.x = Head(frame.rest),
                                              !.d = rank(heap.nodes, Head(frame.rest)),
                                              !.rest = Tail(frame.rest)]
                     /\ UNCHANGED <<heap, pc, last, present, nExt>>
                ELSE \E r \in {FinishExtractMin(heap.nodes, array1)} :
                        /\ Return(r.heap, ExtractMinSeen(r))
                        /\ present' = Remove(present, r.ret[2])
                        /\ nExt' = nExt + 1

\* decrease_key, lines 116-141, up to the call of cascading_cut; without a
\* cut it goes on to lines 147-151.
StepDecreaseKey ==
    \E value \in DeepValues, key \in Keys :
        /\ pc = "idle"
        /\ ~heap.panicked
        /\ nExt > 0
        /\ UNCHANGED <<nIns, nExt>>
        /\ StepIdle
        /\ IF value \notin DOMAIN heap.hash_map
           THEN /\ Return(NotFound(heap, value).heap,
                          Call("decrease_key", <<>>, "Err", FALSE, "-", FALSE, FALSE))
                /\ UNCHANGED present
           ELSE LET x == heap.hash_map[value]
                    y == get_parent(heap.nodes, x)
                    h1 == [heap EXCEPT !.nodes = set_key(heap.nodes, x, key)]
                IN  IF KeyTooLarge(key, get_key(heap.nodes, x))
                    THEN /\ Return(heap, Call("decrease_key", <<>>, "Err", FALSE, "-", FALSE, FALSE))
                         /\ UNCHANGED present
                    ELSE IF y # None /\ NeedsCut(key, get_key(heap.nodes, y))
                    THEN /\ heap' = cut(h1, x, y)
                         /\ pc' = "cascading_cut"
                         /\ frame' = [NoFrame EXCEPT !.before = heap, !.y = y, !.node = x]
                         /\ present' = Put(present, value, key)
                         /\ UNCHANGED last
                    ELSE \E h2 \in {UpdateMin(h1, x)} :
                            /\ Return(h2, Call("decrease_key", <<>>,
                                               IF h2.panicked THEN "Panic" ELSE "Ok",
                                               FALSE, "-", FALSE, FALSE))
                            /\ present' = Put(present, value, key)

\* One invocation of cascading_cut(y), lines 224-238; when it does not
\* recurse, decrease_key goes on to lines 147-151.
CascadeStep ==
    /\ pc = "cascading_cut"
    /\ UNCHANGED <<present, nIns, nExt>>
    /\ StepIdle
    /\ LET y == frame.y
           z == get_parent(heap.nodes, y)
       IN  IF z # None /\ is_marked(heap.nodes, y)
           THEN /\ heap' = cut(heap, y, z)
                /\ frame' = [frame EXCEPT !.y = z]
                /\ UNCHANGED <<pc, last>>
           ELSE \E h2 \in {UpdateMin(IF z = None THEN heap
                                     ELSE [heap EXCEPT !.nodes = set_marked(heap.nodes, y, TRUE)],
                                     frame.node)} :
                    Return(h2, Call("decrease_key", <<>>,
                                    IF h2.panicked THEN "Panic" ELSE "Ok",
                                    FALSE, "-", FALSE, FALSE))

StepNext == StepInsert \/ StepExtractMin \/ LinkStep \/ StepDecreaseKey \/ CascadeStep

StepSpec == Init /\ [][StepNext]_vars

\* ----------------------------------------------------------------- claims
Smallest(f) == {v \in DOMAIN f : \A w \in DOMAIN f : f[v] <= f[w]}

\* C1: while pairs are present, minimum() returns Some((k, v)) with v a
\* present value, k its current key, and k <= the key of every present pair.
C1_MinimumIsSmallest ==
    DOMAIN present # {} =>
        LET m == Minimum(heap)
        IN  /\ m # <<>>
            /\ m[2] \in DOMAIN present
            /\ m[1] = present[m[2]]
            /\ m[2] \in Smallest(present)

\* C1 witness: a successful decrease_key has cut a node from its parent and
\* made it min, strictly below every other present pair.
C1_Witness ==
    /\ last.op = "decrease_key" /\ last.status = "Ok"
    /\ last.cut /\ last.newmin
    /\ Cardinality(DOMAIN present) >= 2
    /\ Smallest(present) = {Minimum(heap)[2]}

\* C2: the keys returned by consecutive extract_min calls are in
\* non-decreasing order.
C2_RunSorted ==
    \A i, j \in 1..Len(run) : i < j => run[i][1] <= run[j][1]

\* C2 witness: three extractions in a row, the last with a larger key than
\* the first.
C2_Witness ==
    /\ Len(run) >= 3
    /\ run[1][1] < run[Len(run)][1]

\* C3: from a heap holding n pairs, extract_min returns Some exactly n times
\* and then None; the pairs returned are the n pairs, each once, each with
\* the key it had.
C3_RoundTrip ==
    /\ Len(run) <= Cardinality(DOMAIN start)
    /\ \A i \in 1..Len(run) :
          /\ run[i][2] \in DOMAIN start
          /\ run[i][1] = start[run[i][2]]
    /\ \A i, j \in 1..Len(run) : run[i][2] = run[j][2] => i = j
    /\ (last.op = "extract_min" /\ last.ret = <<>>) => Len(run) = Cardinality(DOMAIN start)
    /\ (last.op = "extract_min" /\ last.ret # <<>>) => last.ret = run[Len(run)]

\* C3 witness: three pairs were returned, one of them with a key other than
\* the largest, and the next call returned None.
C3_Witness ==
    /\ last.op = "extract_min" /\ last.ret = <<>>
    /\ Len(run) >= 3
    /\ \E i \in 1..Len(run) : run[i][1] < MaxKey

\* C4: decrease_key with a value that is not present returns Err and leaves
\* the whole heap (index, roots, min, size and every node) as it was.
C4_AbsentValueRefused ==
    [][(last'.op = "decrease_key" /\ ~last'.found) =>
           (last'.status = "Err" /\ heap' = heap)]_vars

\* C4 witness: decrease_key was refused for a value that was inserted and
\* extracted, on a heap that still holds pairs.
C4_Witness ==
    /\ last.op = "decrease_key" /\ ~last.found /\ last.status = "Err"
    /\ nIns = MaxInserts /\ nExt > 0 /\ heap.size > 0

\* C5: decrease_key with a present value and a key strictly greater than
\* the current one returns Err and leaves the whole heap as it was.
C5_GreaterKeyRefused ==
    [][(last'.op = "decrease_key" /\ last'.found /\ last'.cmp = "gt") =>
           (last'.status = "Err" /\ heap' = heap)]_vars

\* C5 witness: decrease_key was refused for a present value with a greater
\* key, in a heap where some node has a parent.
C5_Witness ==
    /\ last.op = "decrease_key" /\ last.found /\ last.cmp = "gt" /\ last.status = "Err"
    /\ \E x \in DOMAIN heap.nodes : get_parent(heap.nodes, x) # None

\* C6 as stated: decrease_key fails for every new key >= the current key.
C6_NotSmallerRefused ==
    (last.op = "decrease_key" /\ last.found /\ last.cmp \in {"eq", "gt"}) =>
        last.status = "Err"

\* C6 amended: decrease_key on a present value fails exactly when the new
\* key is strictly greater than the current key; with an equal key it
\* returns Ok.
C6_RefusedIffGreater ==
    (last.op = "decrease_key" /\ last.found) =>
        (last.status = "Err" <=> last.cmp = "gt")

\* C6 witness: decrease_key with the current key returned Ok.
C6_Witness ==
    last.op = "decrease_key" /\ last.found /\ last.cmp = "eq" /\ last.status = "Ok"

\* C7: every node that has a parent has a key >= its parent's key.
C7_HeapOrder ==
    \A x \in DOMAIN heap.nodes :
        get_parent(heap.nodes, x) # None =>
            /\ get_parent(heap.nodes, x) \in DOMAIN heap.nodes
            /\ get_key(heap.nodes, get_parent(heap.nodes, x)) <= get_key(heap.nodes, x)

\* C7 witness: a decrease_key to a smaller key succeeded and nodes with a
\* parent remain.
C7_Witness ==
    /\ last.op = "decrease_key" /\ last.status = "Ok" /\ last.cmp = "lt"
    /\ \E x \in DOMAIN heap.nodes : get_parent(heap.nodes, x) # None

\* C8: size is the number of insert calls minus the number of extract_min
\* calls that returned Some, and is never negative.
C8_SizeIsInsertsMinusExtracts ==
    /\ heap.size = nIns - nExt
    /\ heap.size >= 0

\* C8 witness: after three inserts and an extraction, a decrease_key.
C8_Witness ==
    /\ last.op = "decrease_key" /\ last.status = "Ok"
    /\ nIns >= 3 /\ nExt >= 1

\* C9: with no pair present, minimum() and extract_min() return None, and
\* extract_min leaves the heap as it was, which is as a new heap is.
C9_EmptyHeap ==
    [][(present = EmptyMap /\ last'.op \in {"minimum", "extract_min"}) =>
           /\ last'.ret = <<>>
           /\ last'.status = "-"
           /\ heap' = heap
           /\ heap' = New]_vars

\* C9 witness: extract_min returned None on a heap emptied by extractions.
C9_Witness ==
    /\ last.op = "extract_min" /\ last.ret = <<>>
    /\ nExt > 0 /\ heap.size = 0

InChildSet(h) == UNION {get_children(h.nodes, x) : x \in DOMAIN h.nodes}

\* The step is an insert of the present value v.
InsertedAgain(v) ==
    /\ last'.op = "insert"
    /\ last'.found
    /\ v \in DOMAIN heap.hash_map
    /\ v \in DOMAIN heap'.roots
    /\ heap'.roots[v] \notin DOMAIN heap.nodes

\* C11 as stated: after insert of a present value v there are two nodes with
\* that value, one in the tree structure (roots or a child set), the other
\* only in the index.
C11_OtherOnlyInIndex ==
    [][\A v \in Values : InsertedAgain(v) =>
          \E a, b \in DOMAIN heap'.nodes :
              /\ a # b
              /\ get_value(heap'.nodes, a) = v
              /\ get_value(heap'.nodes, b) = v
              /\ a \in Range(heap'.roots) \cup InChildSet(heap')
              /\ b \in Range(heap'.hash_map)
              /\ b \notin Range(heap'.roots) \cup InChildSet(heap')]_vars

\* C11, amended: insert of a present value v raises no error and counts as
\* one more element; the new node replaces the old one in the index and
\* also in roots, so the indexed node is a root; the old node is in neither
\* map, it survives exactly when it is a child (then it stays in its
\* parent's child set) or remains min.
C11_IndexAndRootsOverwritten ==
    [][\A v \in Values : InsertedAgain(v) =>
          LET old == heap.hash_map[v]
              new == heap'.roots[v]
          IN  /\ ~heap'.panicked
              /\ heap'.size = heap.size + 1
              /\ get_value(heap'.nodes, new) = v
              /\ heap'.hash_map[v] = new
              /\ old \notin Range(heap'.hash_map) \cup Range(heap'.roots)
              /\ old \in DOMAIN heap'.nodes <=>
                     (get_parent(heap.nodes, old) # None \/ heap'.min = old)
              /\ get_parent(heap.nodes, old) # None =>
                     /\ old \in InChildSet(heap')
                     /\ get_value(heap'.nodes, old) = v]_vars

\* A present value whose node was a child has been inserted again.
C11_Witness ==
    /\ last.op = "insert"
    /\ last.found
    /\ \E v \in DOMAIN heap.hash_map : \E old \in InChildSet(heap) :
           /\ get_value(heap.nodes, old) = v
           /\ old # heap.hash_map[v]
           /\ heap.roots[v] = heap.hash_map[v]

\* C12 as stated: between calls, no node of the root set is marked.
C12_RootsNeverMarked ==
    \A v \in DOMAIN heap.roots : ~is_marked(heap.nodes, heap.roots[v])

\* C13: consolidate never indexes its array out of bounds.  extract_min
\* never ends in that panic, and after an extract_min that returned a pair
\* every root's degree, which is the last slot its tree was read from and
\* written to, is below floor(log_phi(size)) + 1 for the size consolidate
\* saw (one more than size is now).
C13_DegreeBelowArraySize ==
    last.op = "extract_min" =>
        /\ last.status # "Panic"
        /\ ~heap.panicked
        /\ last.ret # <<>> =>
               \A v \in DOMAIN heap.roots :
                   rank(heap.nodes, heap.roots[v]) < ArraySize(heap.size + 1)

\* consolidate has used the last slot of its array, for a root of degree 2.
C13_Witness ==
    /\ last.op = "extract_min"
    /\ last.ret # <<>>
    /\ \E v \in DOMAIN heap.roots :
           /\ rank(heap.nodes, heap.roots[v]) = 2
           /\ ArraySize(heap.size + 1) = 3

\* C14: between calls the root set is exactly the set of present nodes that
\* have no parent, each root is stored under its own value, and min, when
\* there is one, is in the root set.
C14_RootsAreTheParentless ==
    /\ \A v \in DOMAIN heap.roots :
           /\ heap.roots[v] \in Range(heap.hash_map)
           /\ get_value(heap.nodes, heap.roots[v]) = v
           /\ get_parent(heap.nodes, heap.roots[v]) = None
    /\ \A x \in Range(heap.hash_map) :
           get_parent(heap.nodes, x) = None => x \in Range(heap.roots)
    /\ heap.min # None => heap.min \in Range(heap.roots)

\* A decrease_key has cut a node and, cascading, a marked ancestor of it,
\* in a heap that extract_min had consolidated.
C14_Witness ==
    /\ last.op = "decrease_key"
    /\ cuts >= 2
    /\ nExt > 0
    /\ Cardinality(DOMAIN heap.roots) >= 3

\* The nodes reachable from the root set through child links.
InForest(h) == Reach(h.nodes, Range(h.roots))

\* The nodes that hold x as a child.
Holders(h, x) == {p \in DOMAIN h.nodes : x \in get_children(h.nodes, p)}

\* C15: between calls the index holds exactly the values inserted and not
\* yet extracted, each under a node of that value with its current key; that
\* node is reachable from the root set and is at one position of the
\* forest: a root that no node holds as a child, or the child of the one
\* node its parent link names; there are `size` such nodes, and nothing
\* else (no extracted value) is in roots, in a child set or alive.
C15_IndexIsThePresent ==
    /\ DOMAIN heap.hash_map = DOMAIN present
    /\ \A v \in DOMAIN heap.hash_map :
           LET x == heap.hash_map[v]
           IN  /\ get_value(heap.nodes, x) = v
               /\ get_key(heap.nodes, x) = present[v]
               /\ x \in InForest(heap)
               /\ IF x \in Range(heap.roots)
                  THEN Holders(heap, x) = {} /\ heap.roots[v] = x
                  ELSE Holders(heap, x) = {get_parent(heap.nodes, x)}
    /\ \A v, w \in DOMAIN heap.hash_map : heap.hash_map[v] = heap.hash_map[w] => v = w
    /\ Cardinality(DOMAIN heap.hash_map) = heap.size
    /\ Range(heap.roots) \cup InChildSet(heap) \cup DOMAIN heap.nodes \subseteq Range(heap.hash_map)

\* extract_min has returned a pair and left a tree of depth two, in which
\* a node has since been marked.
C15_Witness ==
    /\ nExt > 0
    /\ DOMAIN present # DeepValues
    /\ \E x \in DOMAIN heap.nodes :
           /\ is_marked(heap.nodes, x)
           /\ get_parent(heap.nodes, x) # None

\* C16: between calls, size is 0 iff min is None iff roots is empty iff the
\* index is empty; minimum() returns None iff size is 0; decrease_key never
\* panics on unwrapping min.
C16_EmptyTogether ==
    /\ (heap.size = 0) <=> (heap.min = None)
    /\ (heap.size = 0) <=> (DOMAIN heap.roots = {})
    /\ (heap.size = 0) <=> (DOMAIN heap.hash_map = {})
    /\ (Minimum(heap) = <<>>) <=> (heap.size = 0)
    /\ last.op = "minimum" => ((last.ret = <<>>) <=> (heap.size = 0))
    /\ last.op = "decrease_key" => last.status # "Panic"
    /\ ~heap.panicked

\* The heap was emptied by extract_min calls, and minimum() returned None.
C16_Witness ==
    /\ last.op = "minimum"
    /\ last.ret = <<>>
    /\ nExt >= 2
    /\ heap.size = 0

\* C17: right after an extract_min that leaves the heap non-empty no two
\* roots have the same degree, and every node that was a root or a child of
\* the extracted minimum is a root or a descendant of a root.
C17_RootDegreesDiffer ==
    [][(last'.op = "extract_min" /\ last'.ret # <<>> /\ heap'.size > 0) =>
          /\ \A v, w \in DOMAIN heap'.roots :
                 rank(heap'.nodes, heap'.roots[v]) = rank(heap'.nodes, heap'.roots[w]) => v = w
          /\ \A x \in (Range(heap.roots) \cup get_children(heap.nodes, heap.min)) \ {heap.min} :
                 x \in InForest(heap')]_vars

\* extract_min has left two trees, of degree 0 and 1.
C17_Witness ==
    /\ last.op = "extract_min"
    /\ last.ret # <<>>
    /\ \E v, w \in DOMAIN heap.roots :
           /\ rank(heap.nodes, heap.roots[v]) = 0
           /\ rank(heap.nodes, heap.roots[w]) = 1

\* C18: a node that has a parent is marked iff it has lost exactly one
\* child through cut since heap_link made it a child, and it has never
\* lost more: losing a second one, it is cut itself within the same call.
C18_MarkedIffLostOne ==
    \A x \in DOMAIN heap.nodes :
        get_parent(heap.nodes, x) # None =>
            /\ lost[x] <= 1
            /\ is_marked(heap.nodes, x) <=> (lost[x] = 1)

\* A marked node has lost a second child and was cut in the same
\* decrease_key, which left another node marked.
C18_Witness ==
    /\ last.op = "decrease_key"
    /\ cuts = 2
    /\ \E x \in DOMAIN heap.nodes :
           /\ get_parent(heap.nodes, x) # None
           /\ is_marked(heap.nodes, x)
           /\ lost[x] = 1

\* The ancestors of x, from its parent up to the root of its tree.
RECURSIVE PathUp(_, _)
PathUp(ns, x) ==
    IF get_parent(ns, x) = None THEN <<>>
    ELSE <<get_parent(ns, x)>> \o PathUp(ns, get_parent(ns, x))

MarkedChild(ns, a) == is_marked(ns, a) /\ get_parent(ns, a) # None

\* The cascade that C19 describes for x getting a key below its parent's:
\* `cutset` is x with the run of marked non-root ancestors that starts at
\* its parent, `stop` the ancestor after that run.
Cascade(h, x, key) ==
    LET path == PathUp(h.nodes, x)
        j == CHOOSE n \in 0..(Len(path) - 1) :
                 /\ \A i \in 1..n : MarkedChild(h.nodes, path[i])
                 /\ ~MarkedChild(h.nodes, path[n + 1])
        cutset == {x} \cup {path[i] : i \in 1..j}
        stop == path[j + 1]
    IN  [cutset |-> cutset,
         stop |-> stop,
         nodes |-> [n \in DOMAIN h.nodes |->
            [key |-> IF n = x THEN key ELSE get_key(h.nodes, n),
             value |-> get_value(h.nodes, n),
             parent |-> IF n \in cutset THEN None ELSE get_parent(h.nodes, n),
             children |-> get_children(h.nodes, n)
                            \ {c \in cutset : get_parent(h.nodes, c) = n},
             marked |-> IF n \in cutset THEN FALSE
                        ELSE IF n = stop /\ get_parent(h.nodes, n) # None THEN TRUE
                        ELSE is_marked(h.nodes, n)]],
         roots |-> [v \in DOMAIN h.roots \cup {get_value(h.nodes, c) : c \in cutset} |->
                      IF \E c \in cutset : get_value(h.nodes, c) = v
                      THEN CHOOSE c \in cutset : get_value(h.nodes, c) = v
                      ELSE h.roots[v]]]

\* C19: in every state between calls, for every node x that has a parent and
\* every key below the parent's key (and not above x's own), decrease_key
\* returns Ok and leaves exactly the cascade: x and each consecutive marked
\* non-root ancestor are unmarked roots, the ancestor the walk stops at is
\* marked if it is not a root and untouched if it is one, each former parent
\* has lost exactly the cut child, and no other parent, child set or mark
\* has changed.
C19_ExactCascade ==
    \A v \in DOMAIN heap.hash_map, key \in Keys :
        LET x == heap.hash_map[v]
            y == get_parent(heap.nodes, x)
        IN  (/\ y # None
             /\ key < get_key(heap.nodes, y)
             /\ key <= get_key(heap.nodes, x)) =>
                LET r == DecreaseKey(heap, v, key)
                    c == Cascade(heap, x, key)
                IN  /\ r.status = "Ok"
                    /\ r.heap.nodes = c.nodes
                    /\ r.heap.roots = c.roots
                    /\ r.heap.hash_map = heap.hash_map
                    /\ r.heap.size = heap.size

\* A decrease_key has cut a node and one marked ancestor and stopped at a
\* root, where a next decrease_key can cut one more and mark its parent.
C19_Witness ==
    /\ last.op = "decrease_key"
    /\ last.status = "Ok"
    /\ cuts = 2
    /\ \E x \in DOMAIN heap.nodes :
           LET y == get_parent(heap.nodes, x)
           IN  /\ y # None
               /\ get_key(heap.nodes, y) > 0
               /\ ~is_marked(heap.nodes, y)
               /\ get_parent(heap.nodes, y) # None

\* The parent links from x to the root of its tree, counted over at most
\* `fuel` links; more than the number of nodes when no root is found.
RECURSIVE StepsToRoot(_, _, _)
StepsToRoot(ns, x, fuel) ==
    IF get_parent(ns, x) = None THEN 0
    ELSE IF fuel = 0 THEN Cardinality(DOMAIN ns) + 1
    ELSE 1 + StepsToRoot(ns, get_parent(ns, x), fuel - 1)

Height(ns, x) == StepsToRoot(ns, x, Cardinality(DOMAIN ns))

Occupied(array) == Cardinality({i \in DOMAIN array : array[i] # None})

\* What is left to do of the loop in progress: the links above y for
\* cascading_cut; for consolidate the occupied slots and two for every root
\* not yet placed.
Todo ==
    IF pc = "cascading_cut" THEN Height(heap.nodes, frame.y)
    ELSE IF pc = "consolidate" THEN Occupied(frame.array) + 2 * (Len(frame.rest) + 1)
    ELSE 0

\* A step of a loop leaves less to do, and a call returns what ExtractMin
\* and DecreaseKey give.
LoopsAdvance ==
    /\ (pc = "cascading_cut" /\ pc' = "cascading_cut") =>
          Height(heap'.nodes, frame'.y) < Height(heap.nodes, frame.y)
    /\ (/\ pc = "cascading_cut"
        /\ get_parent(heap.nodes, frame.y) = None \/ ~is_marked(heap.nodes, frame.y)) =>
          pc' = "idle"
    /\ (pc = "consolidate" /\ pc' = "consolidate" /\ frame'.rest = frame.rest) =>
          Occupied(frame'.array) = Occupied(frame.array) - 1
    /\ (pc = "consolidate" /\ pc' = "consolidate") =>
          (Todo' = Todo - 1 /\ Todo' > 0)
    /\ (pc = "consolidate" /\ pc' = "idle") =>
          heap' = ExtractMin(frame.before, frame.ord).heap
    /\ (pc = "cascading_cut" /\ pc' = "idle") =>
          \E v \in DOMAIN frame.before.hash_map :
              /\ frame.before.hash_map[v] = frame.node
              /\ heap' = DecreaseKey(frame.before, v, get_key(heap.nodes, frame.node)).heap

Acyclic ==
    \A x \in DOMAIN heap.nodes : Height(heap.nodes, x) < Cardinality(DOMAIN heap.nodes)

\* C20: every call returns.  The parent chains are acyclic; an invocation
\* of cascading_cut that recurses does so one link nearer to the root, and
\* one that finds a root or an unmarked node returns; a pass of the linking
\* loop that links empties one occupied slot, and every pass leaves one
\* less to do of the occupied slots and the roots still to place.  A step
\* of a call in progress has no other condition than pc, so each loop ends
\* within Todo steps, with the heap that ExtractMin and DecreaseKey give.
C20_EveryCallReturns ==
    /\ []Acyclic
    /\ [][LoopsAdvance]_vars

\* A cascading_cut is at its second invocation, above a marked node it has
\* cut, in a heap whose last consolidate linked.
C20_Witness ==
    /\ pc = "cascading_cut"
    /\ frame.y # get_parent(frame.before.nodes, frame.node)
    /\ nExt > 0

====
